---- MODULE Spec2Model ----
(***************************************************************************)
(* Process lifecycle of the Immuno-Warriors backend: the Firebase service  *)
(* initializer with its connectivity retry loop (services/firebaseService),*)
(* the start-up health check, the HTTP listener, the status documents and  *)
(* the signal / fault handlers of app.js.                                  *)
(*                                                                         *)
(* Node runs one handler at a time up to its next await.  Every action     *)
(* below is one such run: from the event that resumes a continuation (a    *)
(* store call settling, a timer firing, a signal) to the next suspension.  *)
(***************************************************************************)
EXTENDS Integers, Sequences, FiniteSets, TLC

\* ---------------------------------------------------------------- bounds
MaxRetriesBound == 3    \* largest maxRetries the retry harness draws
MaxSignals == 2         \* termination signals delivered in one run
MaxFaults == 1          \* uncaught synchronous faults raised in one run
MaxRejections == 2      \* unhandled rejections logged in one run
MaxInits == 3           \* invocations of initializeFirebase in one process

\* ------------------------------------------------------ program constants
DefaultMaxRetries == 3      \* healthCheck(maxRetries = 3, ...)
DefaultDelayMs == 5000      \* healthCheck(..., delayMs = 5000)
ConnectRetries == 3         \* this.retryConnect(3, 5000)
ConnectDelayMs == 5000

\* requiredFields of initializeFirebase, in source order
requiredFields == <<"projectId", "clientEmail", "privateKey", "databaseURL">>
\* requiredEnvVars of healthCheck, in source order
requiredEnvVars == <<"PORT", "JWT_SECRET", "GEMINI_API_KEY", "FIREBASE_PROJECT_ID">>
\* the environment variables config.firebase is read from
FirebaseEnvVars == {"FIREBASE_PROJECT_ID", "FIREBASE_CLIENT_EMAIL",
                    "FIREBASE_PRIVATE_KEY", "FIREBASE_DATABASE_URL"}
EnvVarNames == {"PORT", "JWT_SECRET", "GEMINI_API_KEY"} \cup FirebaseEnvVars

Range(s) == {s[i] : i \in 1..Len(s)}

\* config.firebase: the set of its fields that are truthy under environment e
ConfigFirebase(e) ==
    {f \in Range(requiredFields) :
        \/ f = "projectId"   /\ "FIREBASE_PROJECT_ID" \in e
        \/ f = "clientEmail" /\ "FIREBASE_CLIENT_EMAIL" \in e
        \/ f = "privateKey"  /\ "FIREBASE_PRIVATE_KEY" \in e
        \/ f = "databaseURL" /\ "FIREBASE_DATABASE_URL" \in e}

\* find in place of filter: only the first missing field
MissingFieldsFirstOnly(cfg) ==
    SubSeq(SelectSeq(requiredFields, LAMBDA f : f \notin cfg), 1, 1)

\* requiredFields.filter(field => !config.firebase[field])
MissingFields(cfg) == SelectSeq(requiredFields, LAMBDA f : f \notin cfg)
\* requiredEnvVars.filter(varName => !process.env[varName])
MissingVars(e) == SelectSeq(requiredEnvVars, LAMBDA v : v \notin e)

\* ----------------------------------------------------------------- errors
NoError == [kind |-> "none"]
\* new AppError(status, message, details); a message is the fixed text and
\* the names joined into it
AppError(status, message, details) ==
    [kind |-> "AppError", status |-> status, message |-> message, details |-> details]
Message(text, names) == [text |-> text, names |-> names]
\* the rejection of a store call: op is the call, n the attempt that made it
StoreError(op, n) ==
    [kind |-> "store",
     message |-> [text |-> "store rejected", names |-> <<>>, op |-> op, call |-> n]]

VARIABLES
    env,            \* process.env: the names that are set
    proc,           \* "loading" (require of the modules), "up", "exited"
    exitCode,       \* -1 while the process lives
    exitCalls,      \* calls of process.exit
    adminApps,      \* admin.apps.length
    init,           \* initializeFirebase: [outcome, error] of the latest call,
                    \* and the number of calls
    rc,             \* retryConnect's frame and its observed history
    hc,             \* healthCheck's frame and its observed history
    start,          \* startServer and the listen callback
    isShuttingDown, \* app.js line 178
    shut,           \* the signal handler that runs the shutdown sequence
    signals,        \* signals delivered so far
    faults,         \* uncaught exceptions raised so far
    rejections,     \* unhandled rejections logged
    store           \* latest acknowledged write of status/api_status and of
                    \* config/api, and the number of calls the store rejected

vars == <<env, proc, exitCode, exitCalls, adminApps, init, rc, hc, start,
          isShuttingDown, shut, signals, faults, rejections, store>>

Alive == proc = "up"

\* ------------------------------------------------------------------ store
StoreIdle == [api_status |-> "none", config_api |-> "none", rejects |-> 0]

\* the store answered a call: a rejection is counted
StoreAnswered(st, ok) == IF ok THEN st ELSE [st EXCEPT !.rejects = @ + 1]

\* ------------------------------------------------------------ retryConnect
RcIdle == [pc |-> "idle", maxRetries |-> 0, delayMs |-> 0, attempt |-> 0,
           lastError |-> NoError, thrown |-> NoError,
           invocations |-> 0, failures |-> 0, waits |-> 0, slept |-> 0]

\* await this.verifyConnection(): the set on status/connection_test is issued
RcInvoke(r) == [r EXCEPT !.pc = "awaitVerify", !.invocations = @ + 1]

\* the for-loop's test, then the body or the final throw lastError
RcLoop(r) ==
    IF r.attempt <= r.maxRetries
    THEN RcInvoke(r)
    ELSE [r EXCEPT !.pc = "threw", !.thrown = r.lastError]

\* the catch block with the wait test off by one: no wait before the last attempt
RcCatchSkipsLastWait(r, err) ==
    LET r1 == [r EXCEPT !.lastError = err] IN
    IF r1.attempt + 1 < r1.maxRetries
    THEN [r1 EXCEPT !.pc = "delay", !.waits = @ + 1]
    ELSE RcLoop([r1 EXCEPT !.attempt = @ + 1])

\* the catch block keeping the first error instead of the latest
RcCatchKeepsFirstError(r, err) ==
    LET r1 == [r EXCEPT !.lastError = IF @ = NoError THEN err ELSE @] IN
    IF r1.attempt < r1.maxRetries
    THEN [r1 EXCEPT !.pc = "delay", !.waits = @ + 1]
    ELSE RcLoop([r1 EXCEPT !.attempt = @ + 1])

\* the catch block of retryConnect
RcCatch(r, err) ==
    LET r1 == [r EXCEPT !.lastError = err] IN
    IF r1.attempt < r1.maxRetries
    THEN [r1 EXCEPT !.pc = "delay", !.waits = @ + 1]
    ELSE RcLoop([r1 EXCEPT !.attempt = @ + 1])

\* retryConnect(maxRetries, delayMs) up to its first await
RetryConnectCall(n, d) ==
    RcLoop([RcIdle EXCEPT !.maxRetries = n, !.delayMs = d, !.attempt = 1])

\* verifyConnection's catch: the store error wrapped in an AppError
VerifyError(n) ==
    AppError(500, Message("Impossible de se connecter a Firestore", <<>>),
             StoreError("connection_test.set", n).message)

\* process.exit(code)
Exit(code) ==
    /\ proc' = "exited"
    /\ exitCode' = code
    /\ exitCalls' = exitCalls + 1

NoExit == UNCHANGED <<proc, exitCode, exitCalls>>

\* process.on('unhandledRejection'): logs, nothing else
UnhandledRejection == rejections' = rejections + 1

\* the set on status/connection_test settles
VerifySettles(ok) ==
    /\ Alive
    /\ rc.pc = "awaitVerify"
    /\ rc' = IF ok
             THEN [rc EXCEPT !.pc = "returned"]
             ELSE RcCatch([rc EXCEPT !.failures = @ + 1], VerifyError(rc.invocations))
    \* initializeFirebase does not await retryConnect: its rejection is unhandled
    /\ IF rc'.pc = "threw" /\ init.outcome = "returned"
       THEN UnhandledRejection
       ELSE UNCHANGED rejections
    /\ store' = StoreAnswered(store, ok)
    /\ UNCHANGED <<env, proc, exitCode, exitCalls, adminApps, init, hc, start,
                   isShuttingDown, shut, signals, faults>>

\* setTimeout(resolve, delayMs) of retryConnect fires; attempt++ and the loop test
RcDelayFires ==
    /\ Alive
    /\ rc.pc = "delay"
    /\ rc' = RcLoop([rc EXCEPT !.slept = @ + rc.delayMs, !.attempt = @ + 1])
    /\ UNCHANGED <<env, proc, exitCode, exitCalls, adminApps, init, hc, start,
                   isShuttingDown, shut, signals, faults, rejections, store>>

\* ------------------------------------------------------------- healthCheck
HcIdle == [pc |-> "idle", maxRetries |-> 0, delayMs |-> 0, attempt |-> 0,
           lastError |-> NoError, thrown |-> NoError,
           invocations |-> 0, failures |-> 0, waits |-> 0, slept |-> 0,
           writes |-> 0, lists |-> 0, writeFails |-> 0]

\* new Error(`Missing environment variables: ${missingVars.join(', ')}`), raised
\* by attempt n
EnvError(missing, n) ==
    [kind |-> "Error",
     message |-> [text |-> "Missing environment variables", names |-> missing,
                  op |-> "env", call |-> n]]

RECURSIVE HcLoop(_), HcAttempt(_), HcCatch(_, _)

\* the catch block of healthCheck
HcCatch(h, err) ==
    LET h1 == [h EXCEPT !.lastError = err] IN
    IF h1.attempt < h1.maxRetries
    THEN [h1 EXCEPT !.pc = "delay", !.waits = @ + 1]
    ELSE HcLoop([h1 EXCEPT !.attempt = @ + 1])

\* the try block up to its first await: the environment check, then the set on
\* status/health_check is issued
HcAttempt(h) ==
    LET h1 == [h EXCEPT !.invocations = @ + 1]
        missingVars == MissingVars(env)
    IN  IF Len(missingVars) > 0
        THEN HcCatch([h1 EXCEPT !.failures = @ + 1], EnvError(missingVars, h1.invocations))
        ELSE [h1 EXCEPT !.pc = "awaitWrite", !.writes = @ + 1]

\* the for-loop's test, then the body or the final throw lastError
HcLoop(h) ==
    IF h.attempt <= h.maxRetries
    THEN HcAttempt(h)
    ELSE [h EXCEPT !.pc = "threw", !.thrown = h.lastError]

\* healthCheck(maxRetries, delayMs) up to its first await
HealthCheckCall(n, d) ==
    HcLoop([HcIdle EXCEPT !.maxRetries = n, !.delayMs = d, !.attempt = 1])

\* ------------------------------------------------- updateApiUrlInFirestore
\* updateApiUrlInFirestore without its try/catch: the rejection of the set is
\* the rejection of the call
UpdateApiUrlInFirestoreRethrows(st, status, ok) ==
    IF ok
    THEN [store |-> [st EXCEPT !.config_api = status], outcome |-> "resolved",
          logged |-> FALSE]
    ELSE [store |-> StoreAnswered(st, ok), outcome |-> "rejected", logged |-> FALSE]

\* the merge-set on config/api settled: the document and info(...) on success,
\* the catch's error(...) on failure; the call resolves either way
UpdateApiUrlInFirestore(st, status, ok) ==
    IF ok
    THEN [store |-> [st EXCEPT !.config_api = status], outcome |-> "resolved",
          logged |-> FALSE]
    ELSE [store |-> StoreAnswered(st, ok), outcome |-> "resolved", logged |-> TRUE]

\* ------------------------------------------------------------- startServer
StartIdle == [pc |-> "none", listening |-> FALSE, listenCalls |-> 0,
              closeHandlers |-> FALSE, activeIssued |-> 0, startedIssued |-> 0]

\* startServer going on to listen whatever healthCheck's promise settled to
StartServerResumeUngated(h) ==
    IF start.pc = "awaitHealthCheck" /\ h.pc \in {"returned", "threw"}
    THEN /\ start' = [start EXCEPT !.pc = "awaitActive", !.listening = TRUE,
                                   !.listenCalls = @ + 1, !.closeHandlers = TRUE,
                                   !.activeIssued = @ + 1]
         /\ NoExit
    ELSE /\ UNCHANGED start
         /\ NoExit

\* startServer whose catch logs and does not exit
StartServerResumeNoExit(h) ==
    IF start.pc = "awaitHealthCheck" /\ h.pc = "returned"
    THEN /\ start' = [start EXCEPT !.pc = "awaitActive", !.listening = TRUE,
                                   !.listenCalls = @ + 1, !.closeHandlers = TRUE,
                                   !.activeIssued = @ + 1]
         /\ NoExit
    ELSE IF start.pc = "awaitHealthCheck" /\ h.pc = "threw"
    THEN /\ start' = [start EXCEPT !.pc = "failed"]
         /\ NoExit
    ELSE /\ UNCHANGED start
         /\ NoExit

\* startServer publishing 'active' before it calls app.listen
StartServerResumePublishesFirst(h) ==
    IF start.pc = "awaitHealthCheck" /\ h.pc = "returned"
    THEN /\ start' = [start EXCEPT !.pc = "awaitActive", !.activeIssued = @ + 1]
         /\ NoExit
    ELSE IF start.pc = "awaitHealthCheck" /\ h.pc = "threw"
    THEN /\ start' = [start EXCEPT !.pc = "failed"]
         /\ Exit(1)
    ELSE /\ UNCHANGED start
         /\ NoExit

\* startServer resumed by healthCheck's promise h: lines 237-264 and the listen
\* callback up to its first await when it resolved, the catch when it rejected
StartServerResume(h) ==
    IF start.pc = "awaitHealthCheck" /\ h.pc = "returned"
    THEN /\ start' = [start EXCEPT !.pc = "awaitActive", !.listening = TRUE,
                                   !.listenCalls = @ + 1, !.closeHandlers = TRUE,
                                   !.activeIssued = @ + 1]
         /\ NoExit
    ELSE IF start.pc = "awaitHealthCheck" /\ h.pc = "threw"
    THEN /\ start' = [start EXCEPT !.pc = "failed"]
         /\ Exit(1)
    ELSE /\ UNCHANGED start
         /\ NoExit

\* the write's outcome ignored: the listing follows a rejected write too
HcWriteSettlesListsAnyway(ok) ==
    /\ Alive
    /\ hc.pc = "awaitWrite"
    /\ hc' = IF ok
             THEN [hc EXCEPT !.pc = "awaitList", !.lists = @ + 1]
             ELSE [hc EXCEPT !.pc = "awaitList", !.lists = @ + 1, !.writeFails = @ + 1]
    /\ StartServerResume(hc')
    /\ store' = StoreAnswered(store, ok)
    /\ UNCHANGED <<env, adminApps, init, rc, isShuttingDown, shut, signals,
                   faults, rejections>>

\* the set on status/health_check settles
HcWriteSettles(ok) ==
    /\ Alive
    /\ hc.pc = "awaitWrite"
    /\ hc' = IF ok
             THEN [hc EXCEPT !.pc = "awaitList", !.lists = @ + 1]
             ELSE HcCatch([hc EXCEPT !.failures = @ + 1, !.writeFails = @ + 1],
                          StoreError("health_check.set", hc.invocations))
    /\ StartServerResume(hc')
    /\ store' = StoreAnswered(store, ok)
    /\ UNCHANGED <<env, adminApps, init, rc, isShuttingDown, shut, signals,
                   faults, rejections>>

\* db.listCollections() settles
HcListSettles(ok) ==
    /\ Alive
    /\ hc.pc = "awaitList"
    /\ hc' = IF ok
             THEN [hc EXCEPT !.pc = "returned"]
             ELSE HcCatch([hc EXCEPT !.failures = @ + 1],
                          StoreError("listCollections", hc.invocations))
    /\ StartServerResume(hc')
    /\ store' = StoreAnswered(store, ok)
    /\ UNCHANGED <<env, adminApps, init, rc, isShuttingDown, shut, signals,
                   faults, rejections>>

\* setTimeout(resolve, delayMs) of healthCheck fires; attempt++ and the loop test
HcDelayFires ==
    /\ Alive
    /\ hc.pc = "delay"
    /\ hc' = HcLoop([hc EXCEPT !.slept = @ + hc.delayMs, !.attempt = @ + 1])
    /\ StartServerResume(hc')
    /\ UNCHANGED <<env, adminApps, init, rc, isShuttingDown, shut, signals,
                   faults, rejections, store>>

\* the listen callback resumed by updateApiUrlInFirestore(apiUrl, 'active'):
\* when the call resolved the set on status/api_status ('API started') is
\* issued; a rejection would reject the callback's promise
ActivePublishSettles(ok) ==
    /\ Alive
    /\ start.pc = "awaitActive"
    /\ LET r == UpdateApiUrlInFirestore(store, "active", ok) IN
         /\ store' = r.store
         /\ IF r.outcome = "resolved"
            THEN /\ start' = [start EXCEPT !.pc = "awaitStarted",
                                           !.startedIssued = @ + 1]
                 /\ UNCHANGED rejections
            ELSE /\ start' = [start EXCEPT !.pc = "rejected"]
                 /\ UnhandledRejection
    /\ UNCHANGED <<env, proc, exitCode, exitCalls, adminApps, init, rc, hc,
                   isShuttingDown, shut, signals, faults>>

\* the set on status/api_status of the listen callback settles; a rejection
\* rejects the callback's promise, which nothing handles
StartedSetSettles(ok) ==
    /\ Alive
    /\ start.pc = "awaitStarted"
    /\ IF ok
       THEN /\ store' = [store EXCEPT !.api_status = "started"]
            /\ start' = [start EXCEPT !.pc = "done"]
            /\ UNCHANGED rejections
       ELSE /\ start' = [start EXCEPT !.pc = "rejected"]
            /\ UnhandledRejection
            /\ store' = StoreAnswered(store, ok)
    /\ UNCHANGED <<env, proc, exitCode, exitCalls, adminApps, init, rc, hc,
                   isShuttingDown, shut, signals, faults>>

\* ------------------------------------------------------- graceful shutdown
ShutIdle == [pc |-> "idle", by |-> "none", runs |-> 0,
             stoppedUpdates |-> 0, stoppedPublishes |-> 0]

\* the handler without the test of the flag
ShutdownHandlerUnguarded(sig) ==
    /\ isShuttingDown' = TRUE
    /\ shut' = [shut EXCEPT !.pc = "awaitUpdate", !.by = sig, !.runs = @ + 1,
                            !.stoppedUpdates = @ + 1]

\* the handler of lines 180-194 (SIGTERM) and 196-210 (SIGINT) up to its first
\* await: the flag is tested and set, the update of status/api_status is issued
ShutdownHandler(sig) ==
    IF isShuttingDown
    THEN UNCHANGED <<isShuttingDown, shut>>
    ELSE /\ isShuttingDown' = TRUE
         /\ shut' = [shut EXCEPT !.pc = "awaitUpdate", !.by = sig, !.runs = @ + 1,
                                 !.stoppedUpdates = @ + 1]

\* process.on(sig, () => server.close()), registered once app.listen returned
CloseHandler ==
    start' = IF start.closeHandlers THEN [start EXCEPT !.listening = FALSE] ELSE start

\* a SIGTERM or SIGINT is delivered: its listeners run in registration order
Signal(sig) ==
    /\ Alive
    /\ signals < MaxSignals
    /\ signals' = signals + 1
    /\ ShutdownHandler(sig)
    /\ CloseHandler
    /\ UNCHANGED <<env, proc, exitCode, exitCalls, adminApps, init, rc, hc,
                   faults, rejections, store>>

\* the update of status/api_status ('API stopped') settles: the 'stopped'
\* publish to config/api is issued, or the catch logs and the process exits
ShutUpdateSettles(ok) ==
    /\ Alive
    /\ shut.pc = "awaitUpdate"
    /\ IF ok
       THEN /\ store' = [store EXCEPT !.api_status = "stopped"]
            /\ shut' = [shut EXCEPT !.pc = "awaitPublish", !.stoppedPublishes = @ + 1]
            /\ NoExit
       ELSE /\ shut' = [shut EXCEPT !.pc = "done"]
            /\ Exit(0)
            /\ store' = StoreAnswered(store, ok)
    /\ UNCHANGED <<env, adminApps, init, rc, hc, start, isShuttingDown, signals,
                   faults, rejections>>

\* updateApiUrlInFirestore(url, 'stopped') settles; resolved, or rejected into
\* the handler's catch, process.exit(0) follows
ShutPublishSettles(ok) ==
    /\ Alive
    /\ shut.pc = "awaitPublish"
    /\ store' = UpdateApiUrlInFirestore(store, "stopped", ok).store
    /\ shut' = [shut EXCEPT !.pc = "done"]
    /\ Exit(0)
    /\ UNCHANGED <<env, adminApps, init, rc, hc, start, isShuttingDown, signals,
                   faults, rejections>>

\* the handler without the test of the flag: exits with 1 in every state
UncaughtExceptionAlwaysExits ==
    /\ Alive
    /\ faults < MaxFaults
    /\ faults' = faults + 1
    /\ Exit(1)
    /\ UNCHANGED <<env, adminApps, init, rc, hc, start, isShuttingDown, shut,
                   signals, rejections, store>>

\* process.on('uncaughtException'): logs, exits with 1 unless shutting down
UncaughtException ==
    /\ Alive
    /\ faults < MaxFaults
    /\ faults' = faults + 1
    /\ IF ~isShuttingDown THEN Exit(1) ELSE NoExit
    /\ UNCHANGED <<env, adminApps, init, rc, hc, start, isShuttingDown, shut,
                   signals, rejections, store>>

\* the handler treating a rejection as the uncaught-exception handler treats a
\* fault
UnhandledRejectionRaisedExits ==
    /\ Alive
    /\ rejections < MaxRejections
    /\ UnhandledRejection
    /\ IF ~isShuttingDown THEN Exit(1) ELSE NoExit
    /\ UNCHANGED <<env, adminApps, init, rc, hc, start, isShuttingDown, shut,
                   signals, faults, store>>

\* a promise nothing awaits (of a route handler, say) rejects:
\* process.on('unhandledRejection') runs
UnhandledRejectionRaised ==
    /\ Alive
    /\ rejections < MaxRejections
    /\ UnhandledRejection
    /\ UNCHANGED <<env, proc, exitCode, exitCalls, adminApps, init, rc, hc, start,
                   isShuttingDown, shut, signals, faults, store>>

\* ------------------------------------------------------ initializeFirebase
InitIdle == [outcome |-> "none", error |-> NoError, calls |-> 0]

\* the body without if (!admin.apps.length): admin.initializeApp on every call
InitializeFirebaseBodyUnguarded(cfg, apps) ==
    LET missingFields == MissingFields(cfg)
        inner == AppError(500,
                     Message("Configuration credentials Firebase incomplete", missingFields),
                     "Missing Firebase configuration fields")
    IN  IF Len(missingFields) > 0
        THEN [outcome |-> "threw",
              error |-> AppError(500,
                            Message("Echec de l'initialisation de Firebase", <<>>),
                            inner.message),
              apps |-> apps, probe |-> FALSE]
        ELSE [outcome |-> "returned", error |-> NoError,
              apps |-> apps + 1, probe |-> TRUE]

\* the body of initializeFirebase with config.firebase = cfg and
\* admin.apps.length = apps: what it returns or throws, admin.apps.length
\* afterwards, and whether retryConnect(3, 5000) was started
InitializeFirebaseBody(cfg, apps) ==
    LET missingFields == MissingFields(cfg)
        inner == AppError(500,
                     Message("Configuration credentials Firebase incomplete", missingFields),
                     "Missing Firebase configuration fields")
    IN  IF Len(missingFields) > 0
        THEN [outcome |-> "threw",
              error |-> AppError(500,
                            Message("Echec de l'initialisation de Firebase", <<>>),
                            inner.message),
              apps |-> apps, probe |-> FALSE]
        ELSE [outcome |-> "returned", error |-> NoError,
              apps |-> IF apps = 0 THEN 1 ELSE apps, probe |-> TRUE]

\* ------------------------------------------------------------- module load
\* new FirebaseService(): initializeFirebase, run by require('./services/
\* firebaseService') at app.js line 4.  What it throws leaves the require, before
\* any handler of app.js is registered: the process dies with code 1.
InitializeFirebase ==
    /\ proc = "loading"
    /\ init.outcome = "none"
    /\ LET r == InitializeFirebaseBody(ConfigFirebase(env), adminApps) IN
         /\ init' = [outcome |-> r.outcome, error |-> r.error, calls |-> init.calls + 1]
         /\ adminApps' = r.apps
         /\ IF r.outcome = "threw"
            THEN /\ proc' = "exited"
                 /\ exitCode' = 1
                 /\ UNCHANGED rc
            ELSE /\ rc' = RetryConnectCall(ConnectRetries, ConnectDelayMs)
                 /\ UNCHANGED <<proc, exitCode>>
    /\ UNCHANGED <<env, exitCalls, hc, start, isShuttingDown, shut, signals,
                   faults, rejections, store>>

\* the rest of app.js: the handlers are registered and startServer() runs up to
\* its first suspension
StartServer ==
    /\ proc = "loading"
    /\ init.outcome = "returned"
    /\ start.pc = "none"
    /\ hc' = HealthCheckCall(DefaultMaxRetries, DefaultDelayMs)
    /\ IF hc'.pc = "threw"
       THEN /\ start' = [start EXCEPT !.pc = "failed"]
            /\ Exit(1)
       ELSE /\ start' = [start EXCEPT !.pc = "awaitHealthCheck"]
            /\ proc' = "up"
            /\ UNCHANGED <<exitCode, exitCalls>>
    /\ UNCHANGED <<env, adminApps, init, rc, isShuttingDown, shut, signals,
                   faults, rejections, store>>

\* --------------------------------------------------------- specifications
Init ==
    /\ env \in SUBSET EnvVarNames
    /\ proc = "loading"
    /\ exitCode = -1
    /\ exitCalls = 0
    /\ adminApps = 0
    /\ init = InitIdle
    /\ rc = RcIdle
    /\ hc = HcIdle
    /\ start = StartIdle
    /\ isShuttingDown = FALSE
    /\ shut = ShutIdle
    /\ signals = 0
    /\ faults = 0
    /\ rejections = 0
    /\ store = StoreIdle

Next ==
    \/ InitializeFirebase
    \/ StartServer
    \/ \E ok \in BOOLEAN : VerifySettles(ok)
    \/ RcDelayFires
    \/ \E ok \in BOOLEAN : HcWriteSettles(ok)
    \/ \E ok \in BOOLEAN : HcListSettles(ok)
    \/ HcDelayFires
    \/ \E ok \in BOOLEAN : ActivePublishSettles(ok)
    \/ \E ok \in BOOLEAN : StartedSetSettles(ok)
    \/ \E sig \in {"SIGTERM", "SIGINT"} : Signal(sig)
    \/ \E ok \in BOOLEAN : ShutUpdateSettles(ok)
    \/ \E ok \in BOOLEAN : ShutPublishSettles(ok)
    \/ UncaughtException
    \/ UnhandledRejectionRaised

Spec == Init /\ [][Next]_vars

\* The two retry loops called on their own, for every maxRetries up to the bound:
\* the process is up, nothing of app.js has run.
Delays == {1, DefaultDelayMs}

RetryConnectRun ==
    /\ Alive
    /\ rc.pc = "idle"
    /\ \E n \in 1..MaxRetriesBound, d \in Delays : rc' = RetryConnectCall(n, d)
    /\ UNCHANGED <<env, proc, exitCode, exitCalls, adminApps, init, hc, start,
                   isShuttingDown, shut, signals, faults, rejections, store>>

HealthCheckRun ==
    /\ Alive
    /\ hc.pc = "idle"
    /\ \E n \in 1..MaxRetriesBound, d \in Delays : hc' = HealthCheckCall(n, d)
    /\ UNCHANGED <<env, proc, exitCode, exitCalls, adminApps, init, rc, start,
                   isShuttingDown, shut, signals, faults, rejections, store>>

InitRetry ==
    /\ env \in SUBSET Range(requiredEnvVars)
    /\ proc = "up"
    /\ exitCode = -1
    /\ exitCalls = 0
    /\ adminApps = 0
    /\ init = InitIdle
    /\ rc = RcIdle
    /\ hc = HcIdle
    /\ start = StartIdle
    /\ isShuttingDown = FALSE
    /\ shut = ShutIdle
    /\ signals = 0
    /\ faults = 0
    /\ rejections = 0
    /\ store = StoreIdle

NextRetry ==
    \/ RetryConnectRun
    \/ HealthCheckRun
    \/ \E ok \in BOOLEAN : VerifySettles(ok)
    \/ RcDelayFires
    \/ \E ok \in BOOLEAN : HcWriteSettles(ok)
    \/ \E ok \in BOOLEAN : HcListSettles(ok)
    \/ HcDelayFires

SpecRetry == InitRetry /\ [][NextRetry]_vars

\* initializeFirebase invoked again and again in one process, each invocation
\* once the probe of the one before has ended; what it throws is the caller's
InitializeFirebaseRun ==
    /\ Alive
    /\ init.calls < MaxInits
    /\ rc.pc \in {"idle", "returned", "threw"}
    /\ LET r == InitializeFirebaseBody(ConfigFirebase(env), adminApps) IN
         /\ init' = [outcome |-> r.outcome, error |-> r.error, calls |-> init.calls + 1]
         /\ adminApps' = r.apps
         /\ rc' = IF r.probe
                  THEN RetryConnectCall(ConnectRetries, ConnectDelayMs)
                  ELSE rc
    /\ UNCHANGED <<env, proc, exitCode, exitCalls, hc, start, isShuttingDown,
                   shut, signals, faults, rejections, store>>

InitReinit ==
    /\ env \in SUBSET EnvVarNames
    /\ proc = "up"
    /\ exitCode = -1
    /\ exitCalls = 0
    /\ adminApps = 0
    /\ init = InitIdle
    /\ rc = RcIdle
    /\ hc = HcIdle
    /\ start = StartIdle
    /\ isShuttingDown = FALSE
    /\ shut = ShutIdle
    /\ signals = 0
    /\ faults = 0
    /\ rejections = 0
    /\ store = StoreIdle

NextReinit ==
    \/ InitializeFirebaseRun
    \/ \E ok \in BOOLEAN : VerifySettles(ok)
    \/ RcDelayFires

SpecReinit == InitReinit /\ [][NextReinit]_vars

\* ------------------------------------------------------------------ claims

\* C1: whatever signals are delivered (SIGTERM, SIGINT, in any order, also while
\* the first handler waits for the store), the shutdown sequence runs once: one
\* 'stopped' update of status/api_status is issued, process.exit is called at
\* most once and exactly once when the sequence ends; the flag is set by the
\* first signal and stays set.
C1_ShutdownRunsOnce ==
    /\ shut.runs <= 1
    /\ shut.stoppedUpdates <= 1
    /\ shut.stoppedPublishes <= 1
    /\ exitCalls <= 1
    /\ isShuttingDown <=> shut.runs = 1
    /\ signals >= 1 => (isShuttingDown /\ shut.stoppedUpdates = 1)
    /\ shut.pc = "done" => (proc = "exited" /\ exitCalls = 1)

\* a second signal arrived while the first handler waits for its update
C1_SecondSignalWhileSuspended ==
    /\ signals = 2
    /\ shut.pc = "awaitUpdate"
    /\ shut.stoppedUpdates = 1
    /\ proc = "up"

\* C2: a retry loop (retryConnect, healthCheck) whose operation fails k < N
\* times and then succeeds returns true after k+1 invocations and k waits of
\* delayMs, none after the success; it throws only after N failures.
C2_RetrySucceedsAfterK ==
    /\ rc.pc = "returned" =>
         /\ rc.failures < rc.maxRetries
         /\ rc.invocations = rc.failures + 1
         /\ rc.waits = rc.failures
         /\ rc.slept = rc.failures * rc.delayMs
    /\ hc.pc = "returned" =>
         /\ hc.failures < hc.maxRetries
         /\ hc.invocations = hc.failures + 1
         /\ hc.waits = hc.failures
         /\ hc.slept = hc.failures * hc.delayMs
    /\ rc.pc = "threw" => rc.failures = rc.maxRetries
    /\ hc.pc = "threw" => hc.failures = hc.maxRetries

\* both loops returned on their last allowed attempt
C2_BothReturnedOnLastAttempt ==
    /\ rc.pc = "returned" /\ rc.maxRetries = MaxRetriesBound
    /\ rc.failures = MaxRetriesBound - 1
    /\ hc.pc = "returned" /\ hc.maxRetries = MaxRetriesBound
    /\ hc.failures = MaxRetriesBound - 1

\* C3: a retry loop whose operation fails on every invocation throws after N
\* invocations and N-1 waits of delayMs, and what it throws is the error of the
\* N-th invocation.
C3_RetryExhausted ==
    /\ rc.pc = "threw" =>
         /\ rc.invocations = rc.maxRetries
         /\ rc.waits = rc.maxRetries - 1
         /\ rc.slept = (rc.maxRetries - 1) * rc.delayMs
         /\ rc.thrown = VerifyError(rc.maxRetries)
    /\ hc.pc = "threw" =>
         /\ hc.invocations = hc.maxRetries
         /\ hc.waits = hc.maxRetries - 1
         /\ hc.slept = (hc.maxRetries - 1) * hc.delayMs
         /\ hc.thrown.kind \in {"Error", "store"}
         /\ hc.thrown.message.call = hc.maxRetries
    /\ rc.failures = rc.maxRetries /\ rc.maxRetries > 0 => rc.pc = "threw"
    /\ hc.failures = hc.maxRetries /\ hc.maxRetries > 0 => hc.pc = "threw"

\* both loops ran out of attempts, with more than one attempt
C3_BothExhausted ==
    /\ rc.pc = "threw" /\ rc.maxRetries = MaxRetriesBound
    /\ hc.pc = "threw" /\ hc.maxRetries = MaxRetriesBound
    /\ hc.thrown.kind = "store"

\* C4: the listener is open, and app.listen has been called, only if
\* healthCheck returned true.
C4_ListenOnlyAfterHealthCheck ==
    (start.listening \/ start.listenCalls > 0) => hc.pc = "returned"

\* the listener opened after a failed attempt, a signal handler being suspended
C4_ListeningAfterRetry ==
    /\ start.listening
    /\ hc.failures > 0
    /\ isShuttingDown

\* C5: when the health-check write is rejected on all 3 attempts of
\* healthCheck(3, 5000) and no signal arrives, startServer has called
\* process.exit(1), the listener was never opened and neither 'active' nor
\* 'API started' was published.
C5_ExhaustedStartupExits ==
    (hc.maxRetries = DefaultMaxRetries /\ hc.writeFails = DefaultMaxRetries /\ signals = 0) =>
        /\ start.pc = "failed"
        /\ proc = "exited" /\ exitCode = 1 /\ exitCalls = 1
        /\ ~start.listening /\ start.listenCalls = 0
        /\ start.activeIssued = 0 /\ start.startedIssued = 0
        /\ store.config_api # "active" /\ store.api_status # "started"

\* three rejected writes, no signal
C5_ThreeWritesRejected ==
    /\ hc.writeFails = DefaultMaxRetries
    /\ hc.writes = DefaultMaxRetries
    /\ signals = 0
    /\ start.pc = "failed"

\* C6 (as claimed): a missing required environment variable makes healthCheck
\* fail at once: one check, no wait, no further attempt, no store call.
C6_EnvFailureNotRetried ==
    hc.lastError.kind = "Error" =>
        /\ hc.pc = "threw"
        /\ hc.invocations = 1
        /\ hc.waits = 0
        /\ hc.writes = 0 /\ hc.lists = 0

\* C7 (as claimed): when the probe started by initializeFirebase fails on all
\* its attempts, the initializer has thrown and the listener is not open.
C7_ProbeFailureIsFatal ==
    rc.pc = "threw" => (init.outcome = "threw" /\ ~start.listening)

\* the credential fields config.firebase lacks
MissingCredentials == Range(requiredFields) \ ConfigFirebase(env)

\* C8 (as claimed): with a credential field missing, the message of the error
\* initializeFirebase throws names every missing field; no client is
\* constructed and no probe is started.
C8_MessageNamesMissingFields ==
    init.outcome = "threw" =>
        /\ Range(init.error.message.names) = MissingCredentials
        /\ adminApps = 0
        /\ rc = RcIdle

\* C8 (amended): with a credential field missing, initializeFirebase throws an
\* AppError(500) whose message is the fixed initialization-failure text and
\* whose details are the configuration error's message, which names every
\* missing field in the order of requiredFields; no client is constructed, no
\* probe is started and no store call is made.
C8_DetailsNameMissingFields ==
    /\ (init.outcome # "none" /\ MissingCredentials # {}) =>
          /\ init.outcome = "threw"
          /\ init.error.kind = "AppError" /\ init.error.status = 500
          /\ init.error.message = Message("Echec de l'initialisation de Firebase", <<>>)
          /\ init.error.details.text = "Configuration credentials Firebase incomplete"
          /\ Range(init.error.details.names) = MissingCredentials
          /\ Len(init.error.details.names) = Cardinality(MissingCredentials)
          /\ adminApps = 0
          /\ rc = RcIdle /\ hc = HcIdle /\ start = StartIdle /\ store = StoreIdle
    /\ init.outcome = "threw" => MissingCredentials # {}

\* initializeFirebase threw with more than one field missing
C8_SeveralFieldsMissing ==
    /\ init.outcome = "threw"
    /\ Cardinality(MissingCredentials) >= 2
    /\ proc = "exited"

\* C9 (as claimed): a signal handled while the store accepts every write: at
\* the handler's exit both 'stopped' writes were made, the exit code is 0 and
\* 'stopped' is the latest write of status/api_status and of config/api.
C9_StoppedIsLatestAtExit ==
    (shut.pc = "done" /\ store.rejects = 0) =>
        /\ exitCode = 0
        /\ shut.stoppedUpdates = 1 /\ shut.stoppedPublishes = 1
        /\ store.api_status = "stopped"
        /\ store.config_api = "stopped"

\* C10 (as claimed): once a signal has been handled, the exit the process makes
\* is the handler's process.exit(0), whatever the two shutdown writes answered.
C10_ExitZeroAfterSignal ==
    (isShuttingDown /\ proc = "exited") => (exitCode = 0 /\ shut.pc = "done")

\* C11: an uncaught fault makes the process exit with code 1 exactly when
\* isShuttingDown is false; raised while shutting down it is logged only: no
\* exit is called and nothing of the shutdown sequence changes, and the
\* sequence, when it ends, ends with exit code 0.
C11_FaultExitsOnlyWhileRunning ==
    /\ [][faults' # faults =>
            /\ ~isShuttingDown => (proc' = "exited" /\ exitCode' = 1
                                    /\ exitCalls' = exitCalls + 1)
            /\ isShuttingDown => UNCHANGED <<proc, exitCode, exitCalls, shut,
                                             isShuttingDown, start, store>>]_vars
    /\ [](shut.pc = "done" => (exitCode = 0 /\ exitCalls = 1))

\* a fault was raised during the shutdown, which then ended with code 0
C11_FaultDuringShutdown ==
    /\ faults = 1
    /\ shut.pc = "done"
    /\ proc = "exited"
    /\ exitCode = 0

\* C12 (as claimed): an uncaught fault raised while isShuttingDown is false
\* makes the transition a signal makes: when the process has exited with code 1
\* on the fault, the flag is set and the 'stopped' update of status/api_status
\* has been issued.
C12_FaultRunsShutdownSequence ==
    (faults >= 1 /\ proc = "exited" /\ exitCode = 1 /\ start.pc # "failed") =>
        (isShuttingDown /\ shut.stoppedUpdates = 1)

\* C13: an unhandled rejection is logged and nothing else: in the turn that
\* logs it the flag, the shutdown sequence, the listener, the status documents
\* and the process's exit state stay as they are, and no store write is issued.
C13_RejectionOnlyLogged ==
    [][rejections' # rejections =>
          /\ UNCHANGED <<isShuttingDown, shut, proc, exitCode, exitCalls, hc>>
          /\ start'.listening = start.listening
          /\ start'.listenCalls = start.listenCalls
          /\ start'.activeIssued = start.activeIssued
          /\ start'.startedIssued = start.startedIssued
          /\ store'.api_status = store.api_status
          /\ store'.config_api = store.config_api]_vars

\* rejections were logged, one of them during the shutdown sequence or before
\* it, and the process is still up with the sequence in progress
C13_RejectionsLoggedWhileShuttingDown ==
    /\ rejections = MaxRejections
    /\ isShuttingDown
    /\ shut.pc = "awaitPublish"
    /\ proc = "up"

\* C14: updateApiUrlInFirestore resolves whatever the store answered to its
\* set on config/api: the listen callback always goes on to its set of
\* status/api_status and raises no rejection, the signal handler always goes on
\* to process.exit(0); a rejected set is logged and leaves the document as it
\* was.
C14_PublishNeverThrows ==
    /\ [][(start.pc = "awaitActive" /\ start'.pc # start.pc) =>
             /\ start'.pc = "awaitStarted"
             /\ start'.startedIssued = start.startedIssued + 1
             /\ rejections' = rejections]_vars
    /\ [][(shut.pc = "awaitPublish" /\ shut'.pc # shut.pc) =>
             /\ shut'.pc = "done"
             /\ proc' = "exited" /\ exitCode' = 0]_vars
    /\ [](\A st \in {"active", "stopped"} :
             LET r == UpdateApiUrlInFirestore(store, st, FALSE) IN
                 /\ r.outcome = "resolved" /\ r.logged
                 /\ r.store.config_api = store.config_api)

\* the 'active' publish was rejected and the callback went on to its next step
C14_CallbackWentOnAfterRejectedPublish ==
    /\ start.pc = "awaitStarted"
    /\ store.config_api = "none"
    /\ store.rejects = 1
    /\ hc.failures = 0 /\ rc.failures = 0
    /\ shut.pc = "idle"

C16_OneAppInstance ==
    /\ adminApps <= 1
    /\ init.outcome = "returned" => adminApps = 1
    /\ init.outcome = "threw" => adminApps = 0

\* initializeFirebase has returned from its last allowed invocation
C16_InitializedRepeatedly ==
    /\ init.calls = MaxInits
    /\ init.calls >= 2
    /\ init.outcome = "returned"
    /\ adminApps = 1

\* C17 (as claimed): the 'stopped' publish to config/api is attempted before
\* the signal handler's exit also when its update of status/api_status was
\* rejected: a handler that has ended has issued the publish.
C17_PublishAttemptedAfterRejectedUpdate ==
    shut.pc = "done" => shut.stoppedPublishes = 1

\* the attempt of healthCheck that is waiting for the store, if any
HcInFlight == IF hc.pc \in {"awaitWrite", "awaitList"} THEN 1 ELSE 0
HcSucceeded == IF hc.pc = "returned" THEN 1 ELSE 0

\* C18: an attempt of healthCheck makes at most one write and, only after that
\* write was accepted, at most one listing; every attempt that ended without
\* returning is one failure, whether the environment check, the write or the
\* listing failed, and the next attempt starts from the write again.  A run
\* that returns at its first attempt has made 1 write and 1 listing; no run makes
\* more than maxRetries writes or listings.
C18_OneWriteOneListPerAttempt ==
    /\ hc.invocations <= hc.maxRetries
    /\ hc.writes <= hc.invocations /\ hc.lists <= hc.invocations
    /\ hc.writes <= hc.maxRetries /\ hc.lists <= hc.maxRetries
    /\ hc.failures = hc.invocations - HcInFlight - HcSucceeded
    /\ hc.lists = hc.writes - hc.writeFails - (IF hc.pc = "awaitWrite" THEN 1 ELSE 0)
    /\ Len(MissingVars(env)) = 0 => hc.writes = hc.invocations
    /\ Len(MissingVars(env)) > 0 => hc.writes = 0
    /\ (hc.pc = "returned" /\ hc.failures = 0) =>
           (hc.invocations = 1 /\ hc.writes = 1 /\ hc.lists = 1)
    /\ hc.pc = "returned" => hc.lists = hc.writes - hc.writeFails

\* a run that returned at its second attempt after a rejected listing: two
\* writes, two listings
C18_RetriedFromTheWrite ==
    /\ hc.pc = "returned"
    /\ hc.failures = 1 /\ hc.writeFails = 0
    /\ hc.writes = 2 /\ hc.lists = 2

\* C19 (as claimed): once the process is shutting down no step of the start-up
\* sequence takes effect any more: the server does not begin to listen, no
\* 'active' publish and no 'started' write is issued, and the store is not
\* written 'started' or 'active' over 'stopped'.
C19_NoStartupStepWhileShuttingDown ==
    [][isShuttingDown =>
          /\ start'.listenCalls = start.listenCalls
          /\ start'.activeIssued = start.activeIssued
          /\ start'.startedIssued = start.startedIssued
          /\ (store.api_status = "stopped" => store'.api_status = "stopped")
          /\ (store.config_api = "stopped" => store'.config_api = "stopped")]_vars

\* C20 (as claimed): once a signal has started the shutdown, the process ends
\* with code 0 and with no other code, whatever else happens meanwhile.
C20_OnlyExitZeroOnceShuttingDown ==
    (shut.by \in {"SIGTERM", "SIGINT"} /\ proc = "exited") => exitCode = 0

====
